---------------------------- MODULE Spec2Model ----------------------------
(***************************************************************************)
(* Resume scoring microservice: POST /score (main.py) and score_resume     *)
(* (scorer.py).  Strings are tuples of one-character strings, so that      *)
(* strip, tokenisation, lower-casing, lemmatisation, the fuzzy ratio and   *)
(* Python's string ordering are computed rather than assumed.              *)
(***************************************************************************)
EXTENDS Integers, Sequences, FiniteSets, TLC

(***************************************************************************)
(* Characters, in code-point order (what Python's str comparison uses).    *)
(***************************************************************************)
Chars ==
  << " ", ",",
     "A","B","C","D","E","F","G","H","I","J","K","L","M",
     "N","O","P","Q","R","S","T","U","V","W","X","Y","Z",
     "a","b","c","d","e","f","g","h","i","j","k","l","m",
     "n","o","p","q","r","s","t","u","v","w","x","y","z" >>

Code(c) == CHOOSE i \in 1..Len(Chars) : Chars[i] = c

IsUpper(c) == Code(c) \in 3..28

\* str.lower() on one character
LowerChar(c) == IF IsUpper(c) THEN Chars[Code(c) + 26] ELSE c

\* str.lower()
Lower(s) == [i \in 1..Len(s) |-> LowerChar(s[i])]

\* Python's s < t on strings: lexicographic by code point, a proper prefix first
RECURSIVE StrLess(_, _)
StrLess(s, t) ==
  IF t = << >> THEN FALSE
  ELSE IF s = << >> THEN TRUE
  ELSE IF Head(s) = Head(t) THEN StrLess(Tail(s), Tail(t))
  ELSE Code(Head(s)) < Code(Head(t))

\* str.strip(): leading and trailing whitespace removed
RECURSIVE LStrip(_)
LStrip(s) == IF s # << >> /\ Head(s) = " " THEN LStrip(Tail(s)) ELSE s

RECURSIVE RStrip(_)
RStrip(s) ==
  IF s # << >> /\ s[Len(s)] = " " THEN RStrip(SubSeq(s, 1, Len(s) - 1)) ELSE s

Strip(s) == RStrip(LStrip(s))

\* str.split(): the maximal runs of non-whitespace characters, in order
RECURSIVE SplitFrom(_, _, _)
SplitFrom(s, cur, acc) ==
  IF s = << >> THEN (IF cur = << >> THEN acc ELSE Append(acc, cur))
  ELSE IF Head(s) = " "
    THEN SplitFrom(Tail(s), << >>, IF cur = << >> THEN acc ELSE Append(acc, cur))
    ELSE SplitFrom(Tail(s), Append(cur, Head(s)), acc)

Split(s) == SplitFrom(s, << >>, << >>)

\* ' '.join(words)
RECURSIVE Join(_)
Join(ws) ==
  IF ws = << >> THEN << >>
  ELSE IF Len(ws) = 1 THEN ws[1]
  ELSE ws[1] \o << " " >> \o Join(Tail(ws))

\* nltk.word_tokenize on the texts of this model: whitespace separates the
\* tokens and a comma is a token of its own
RECURSIVE TokensFrom(_, _, _)
TokensFrom(s, cur, acc) ==
  LET flushed == IF cur = << >> THEN acc ELSE Append(acc, cur) IN
  IF s = << >> THEN flushed
  ELSE IF Head(s) = " " THEN TokensFrom(Tail(s), << >>, flushed)
  ELSE IF Head(s) = "," THEN TokensFrom(Tail(s), << >>, Append(flushed, << "," >>))
  ELSE TokensFrom(Tail(s), Append(cur, Head(s)), acc)

word_tokenize(s) == TokensFrom(s, << >>, << >>)

\* WordNetLemmatizer.lemmatize(token, get_wordnet_pos(token)) on the
\* vocabulary of this model: the plural nouns go to their singular, every
\* other token (punctuation included, tagged as a noun) is its own lemma
lemmatize(token) ==
  IF token = << "s","t","r","u","c","t","u","r","e","s" >>
    THEN << "s","t","r","u","c","t","u","r","e" >>
  ELSE IF token = << "s","p","r","e","a","d","s","h","e","e","t","s" >>
    THEN << "s","p","r","e","a","d","s","h","e","e","t" >>
  ELSE token

lemmatize_text_for_matching(text) ==
  LET tokens == word_tokenize(Lower(text)) IN
  Join([i \in 1..Len(tokens) |-> lemmatize(tokens[i])])

(***************************************************************************)
(* fuzz.ratio(a, b): 0 when either string is empty, else                   *)
(* round(100 * 2*M / (len(a) + len(b))) with M the number of matching      *)
(* characters (the longest common subsequence).                            *)
(***************************************************************************)
Max(a, b) == IF a >= b THEN a ELSE b

\* one row of the longest-common-subsequence table, filled left to right:
\* cur holds the columns 0..Len(cur)-1 of the row of character ch, prev is
\* the row above
RECURSIVE LcsFill(_, _, _, _)
LcsFill(prev, ch, b, cur) ==
  LET j == Len(cur) IN
  IF j > Len(b) THEN cur
  ELSE LET cell == IF b[j] = ch THEN prev[j] + 1 ELSE Max(prev[j + 1], cur[j])
       IN  IF cell >= 0 THEN LcsFill(prev, ch, b, Append(cur, cell)) ELSE cur

\* the rows i..Len(a) of the table, from the row above row i
RECURSIVE LcsRows(_, _, _, _)
LcsRows(a, b, i, prev) ==
  IF i > Len(a) THEN prev
  ELSE LET row == LcsFill(prev, a[i], b, << 0 >>)
       IN  IF Len(row) > 0 THEN LcsRows(a, b, i + 1, row) ELSE row

\* the length of the longest common subsequence of a and b
Lcs(a, b) == LcsRows(a, b, 1, [j \in 1..(Len(b) + 1) |-> 0])[Len(b) + 1]

ratio(a, b) ==
  IF a = << >> \/ b = << >> THEN 0
  ELSE LET T == Len(a) + Len(b) IN (400 * Lcs(a, b) + T) \div (2 * T)

WordThreshold == 80

\* a window of fewer than n words at the end of the text counts as well
WindowMatch_ShortWindows(phrase_lem, n, words, threshold) ==
  \E i \in 0..(Len(words) - 1) :
     ratio(Join(SubSeq(words, i + 1, IF i + n > Len(words) THEN Len(words) ELSE i + n)),
           phrase_lem) >= threshold

\* the window loop of phrase_in_lemmatized_text: some window of n text
\* words reaches the threshold
WindowMatch(phrase_lemmatized, n, text_words, threshold) ==
  \E i \in 0..(Len(text_words) - n) :
     ratio(Join(SubSeq(text_words, i + 1, i + n)), phrase_lemmatized) >= threshold

\* the word-level fallback for multi-word phrases
WordMatch(phrase_words, text_words) ==
  \E w \in 1..Len(phrase_words) : \E t \in 1..Len(text_words) :
     ratio(phrase_words[w], text_words[t]) >= WordThreshold

phrase_in_lemmatized_text(phrase, lemmatized_text, threshold) ==
  LET phrase_lemmatized == lemmatize_text_for_matching(phrase)
      phrase_words == Split(phrase_lemmatized)
      n == Len(phrase_words)
      text_words == Split(lemmatized_text)
  IN  \/ WindowMatch(phrase_lemmatized, n, text_words, threshold)
      \/ n > 1 /\ WordMatch(phrase_words, text_words)


(***************************************************************************)
(* The data of the service: config.json and data/*.json, read at start-up  *)
(* by main.py, and alternate_skills.json, read by every call.              *)
(***************************************************************************)
Java == << "J","a","v","a" >>
SQL == << "S","Q","L" >>
DataStructures == << "D","a","t","a"," ","S","t","r","u","c","t","u","r","e","s" >>
Git == << "G","i","t" >>
Excel == << "E","x","c","e","l" >>
Python == << "P","y","t","h","o","n" >>
MySQL == << "M","y","S","Q","L" >>
Postgres == << "P","o","s","t","g","r","e","s" >>
Spreadsheets == << "S","p","r","e","a","d","s","h","e","e","t","s" >>

\* the resume texts of the requests
Texts ==
  { << >>,
    << " ", " " >>,
    \* " Java, SQL, Data Structures, Git"
    << " ","J","a","v","a",","," ","S","Q","L",","," ","D","a","t","a"," ","S","t","r","u","c","t","u","r","e","s",","," ","G","i","t" >>,
    \* "structures postgres"
    << "s","t","r","u","c","t","u","r","e","s"," ","p","o","s","t","g","r","e","s" >>,
    \* "Java sqlite"
    << "J","a","v","a"," ","s","q","l","i","t","e" >>,
    \* "Git spreadsheets"
    << "G","i","t"," ","s","p","r","e","a","d","s","h","e","e","t","s" >> }

Goals == {"Amazon SDE", "Data Analyst", "Intern", "New Grad", "Backend", "Invalid Goal"}

\* config["model_goals_supported"]
model_goals_supported == {"Amazon SDE", "Data Analyst", "Intern", "New Grad", "Backend"}

\* goals.json: goal -> list of {name, importance}; "New Grad" is supported
\* but has no entry, "Data Analyst" lists SQL twice, Git carries an
\* importance outside the three tiers
Item(n, imp) == [name |-> n, importance |-> imp]

goals_map ==
  [g \in {"Amazon SDE", "Data Analyst", "Intern", "Backend"} |->
     CASE g = "Amazon SDE" ->
            << Item(Java, "core"), Item(SQL, "important"),
               Item(DataStructures, "core"), Item(Git, "optional") >>
       [] g = "Data Analyst" ->
            << Item(SQL, "nice_to_have"), Item(Excel, "nice_to_have"),
               Item(SQL, "core") >>
       [] g = "Intern" -> << Item(Git, "optional") >>
       [] g = "Backend" -> << Item(Java, "core"), Item(Git, "optional") >> ]

\* skill_groups.json: goal -> group -> list of skill names
skill_groups ==
  [g \in {"Amazon SDE", "Data Analyst"} |->
     IF g = "Amazon SDE"
       THEN [grp \in {"Programming", "Databases"} |->
               IF grp = "Programming" THEN {Java, Git, Python} ELSE {SQL}]
       ELSE [grp \in {"Analysis"} |-> {SQL, Excel}]]

\* suggestions.json: skill name -> text
suggestion_map ==
  [n \in {Java, SQL} |->
     IF n = Java THEN << "Build a project in Java" >>
                 ELSE << "Practice SQL queries" >>]

\* alternate_skills.json when it is well formed: skill name -> list of phrases
JsonList(items) == [kind |-> "list", items |-> items]
JsonNumber == [kind |-> "number", items |-> << >>]

AlternatesWellFormed ==
  [n \in {SQL, Excel} |->
     IF n = SQL THEN JsonList(<< MySQL, Postgres >>) ELSE JsonList(<< Spreadsheets >>)]

\* valid JSON of the wrong shape: the entry of SQL is a number, not a list
AlternatesBadShape ==
  [n \in {SQL, Excel} |->
     IF n = SQL THEN JsonNumber ELSE JsonList(<< Spreadsheets >>)]

EmptyDict == [n \in {} |-> JsonNumber]


(***************************************************************************)
(* Bounds and value sets of the model.                                     *)
(***************************************************************************)
\* config["max_missing_skills"] ranges over 1..MaxCap, or the key is absent
MaxCap == 2

\* config["minimum_score_to_pass"], in hundredths
MinScores == {50, 88}

\* the classifier's positive-class probability, in tenths
PValues == {0, 8, 10}

Configs ==
  [minimum_score_to_pass : MinScores,
   max_missing_skills : {<< >>} \cup {<< n >> : n \in 1..MaxCap}]   \* << >>: no key

\* what joblib.load and the loaded objects do for the goal of the request
Artifacts == {"ok", "no_model", "no_vectorizer", "bad_features", "no_predict_proba"}

\* the state of data/alternate_skills.json
AlternateFiles == {"ok", "missing", "invalid_json", "bad_shape"}

Requests ==
  { r \in [entry : {"post_score", "score_resume"},
           goal : Goals,
           resume_text : Texts,
           artifacts : Artifacts,
           alternates_file : AlternateFiles,
           prob : PValues] :
      r.artifacts # "ok" => r.prob = 0 }   \* predict_proba is never reached

None == "none"

(***************************************************************************)
(* State.                                                                  *)
(***************************************************************************)
VARIABLES
  config,                  \* config.json, loaded at start-up
  pc,                      \* where the call stands
  req,                     \* the request being served
  calls,                   \* 1 on a request's first call, 2 on its repetition
  first,                   \* the first call of the request: << >> or <<FirstCall>>
  work,                    \* the work score_resume has started (loads, matching)
  prob,                    \* model.predict_proba(...)[0][1], in tenths
  alternate_skills_map,    \* what load_alternate_skills returned
  lemmatized_resume_text,
  todo,                    \* goal_skill_names still to be iterated
  matched_skills,          \* list
  all_missing_skills,      \* list of <<skill_name, importance>>
  how,                     \* skill -> how the loop settled it (what it logs)
  exc,                     \* the exception score_resume raised: << >> or <<e>>
  result,                  \* the dict score_resume returned: << >> or <<d>>
  http                     \* the response of POST /score: << >> or <<r>>

vars ==
  << config, pc, req, calls, first, work, prob, alternate_skills_map,
     lemmatized_resume_text, todo, matched_skills, all_missing_skills, how,
     exc, result, http >>

NoHow == [n \in {} |-> None]

\* the locals of score_resume before the call has run
FreshCall ==
  /\ work' = {}
  /\ prob' = -1
  /\ alternate_skills_map' = None
  /\ lemmatized_resume_text' = None
  /\ todo' = {}
  /\ matched_skills' = << >>
  /\ all_missing_skills' = << >>
  /\ how' = NoHow
  /\ exc' = << >>
  /\ result' = << >>
  /\ http' = << >>

Init ==
  /\ config \in Configs
  /\ pc = "idle"
  /\ req = << >>
  /\ calls = 0
  /\ first = << >>
  /\ work = {}
  /\ prob = -1
  /\ alternate_skills_map = None
  /\ lemmatized_resume_text = None
  /\ todo = {}
  /\ matched_skills = << >>
  /\ all_missing_skills = << >>
  /\ how = NoHow
  /\ exc = << >>
  /\ result = << >>
  /\ http = << >>

\* the call is over: POST /score has responded, or a direct call of
\* score_resume has returned or raised
Done ==
  \/ pc = "responded"
  \/ pc \in {"returned", "raised"} /\ req.entry = "score_resume"

\* what the caller sees of a call
Outcome == [result |-> result, exc |-> exc, http |-> http]

\* what is remembered of a request's first call: its outcome, and the order
\* in which its loop filled the two lists
FirstCall ==
  [outcome |-> Outcome, matched |-> matched_skills, missing |-> all_missing_skills]

\* a client sends a request, or a caller calls score_resume
Request ==
  /\ pc = "idle"
  /\ \E r \in Requests : req' = r /\ pc' = r.entry
  /\ calls' = 1
  /\ first' = << >>
  /\ FreshCall
  /\ UNCHANGED config

\* the call is over and nothing of it is kept: the service waits for the next
Forget ==
  /\ Done
  /\ pc' = "idle"
  /\ req' = << >>
  /\ calls' = 0
  /\ first' = << >>
  /\ FreshCall
  /\ UNCHANGED config

\* the same request again, with the same files on disk
Repeat ==
  /\ Done
  /\ calls = 1
  /\ calls' = 2
  /\ first' = << FirstCall >>
  /\ pc' = req.entry
  /\ FreshCall
  /\ UNCHANGED << config, req >>


(***************************************************************************)
(* POST /score, before it calls the scorer (main.py, post_score).          *)
(***************************************************************************)
EmptyMessage == "Resume text cannot be empty"

HTTPException(status_code, detail) == [status_code |-> status_code, detail |-> detail]

Exception(type, msg) == [type |-> type, msg |-> msg]

\* the text is compared with "" without being stripped
IsBlank_NoStrip(text) == text = << >>

\* not resume_text.strip()
IsBlank(text) == Strip(text) = << >>

\* the check of the goal left out
IsSupported_Any(goal) == TRUE

\* line 76: request.goal in config["model_goals_supported"]
IsSupported(goal) == goal \in model_goals_supported

PostScoreCheck ==
  /\ pc = "post_score"
  /\ IF IsBlank(req.resume_text)
       THEN /\ http' = << HTTPException(400, << EmptyMessage >>) >>
            /\ pc' = "responded"
     ELSE IF ~IsSupported(req.goal)
       THEN /\ http' = << HTTPException(400, << "Unsupported goal", req.goal >>) >>
            /\ pc' = "responded"
     ELSE /\ http' = http
          /\ pc' = "score_resume"
  /\ UNCHANGED << config, req, calls, first, work, prob, alternate_skills_map,
                  lemmatized_resume_text, todo, matched_skills,
                  all_missing_skills, how, exc, result >>

(***************************************************************************)
(* score_resume (scorer.py), statement by statement.                       *)
(***************************************************************************)
\* lines 101-104
ValidateInput ==
  /\ pc = "score_resume"
  /\ IF IsBlank(req.resume_text)
       THEN /\ exc' = << Exception("ValueError", EmptyMessage) >>
            /\ pc' = "raised"
       ELSE /\ exc' = exc
            /\ pc' = "load_model"
  /\ UNCHANGED << config, req, calls, first, work, prob, alternate_skills_map,
                  lemmatized_resume_text, todo, matched_skills,
                  all_missing_skills, how, result, http >>

\* line 108: load_model(goal)
LoadModel ==
  /\ pc = "load_model"
  /\ work' = work \cup {"load_model"}
  /\ IF req.artifacts = "no_model"
       THEN /\ exc' = << Exception("FileNotFoundError", "model") >>
            /\ pc' = "raised"
       ELSE /\ exc' = exc
            /\ pc' = "load_vectorizer"
  /\ UNCHANGED << config, req, calls, first, prob, alternate_skills_map,
                  lemmatized_resume_text, todo, matched_skills,
                  all_missing_skills, how, result, http >>

\* line 109: load_vectorizer(goal)
LoadVectorizer ==
  /\ pc = "load_vectorizer"
  /\ work' = work \cup {"load_vectorizer"}
  /\ IF req.artifacts = "no_vectorizer"
       THEN /\ exc' = << Exception("FileNotFoundError", "vectorizer") >>
            /\ pc' = "raised"
       ELSE /\ exc' = exc
            /\ pc' = "predict"
  /\ UNCHANGED << config, req, calls, first, prob, alternate_skills_map,
                  lemmatized_resume_text, todo, matched_skills,
                  all_missing_skills, how, result, http >>

\* lines 110-114: vectorizer.transform and model.predict_proba; what they
\* raise is re-raised
Predict ==
  /\ pc = "predict"
  /\ work' = work \cup {"predict"}
  /\ IF req.artifacts = "bad_features"
       THEN /\ exc' = << Exception("ValueError", "feature mismatch") >>
            /\ prob' = prob
            /\ pc' = "raised"
     ELSE IF req.artifacts = "no_predict_proba"
       THEN /\ exc' = << Exception("AttributeError", "predict_proba") >>
            /\ prob' = prob
            /\ pc' = "raised"
     ELSE /\ exc' = exc
          /\ prob' = req.prob
          /\ pc' = "load_alternates"
  /\ UNCHANGED << config, req, calls, first, alternate_skills_map,
                  lemmatized_resume_text, todo, matched_skills,
                  all_missing_skills, how, result, http >>

\* load_alternate_skills: a missing or undecodable file is logged and read as {}
load_alternate_skills(file) ==
  IF file \in {"missing", "invalid_json"} THEN EmptyDict
  ELSE IF file = "bad_shape" THEN AlternatesBadShape
  ELSE AlternatesWellFormed

\* goals_map.get(goal, [])
GoalItems(goal) == IF goal \in DOMAIN goals_map THEN goals_map[goal] ELSE << >>

\* line 117: the dict comprehension; a name listed twice keeps its last importance
goal_skills_with_importance(goal) ==
  LET items == GoalItems(goal) IN
  [n \in {items[i].name : i \in 1..Len(items)} |->
     items[CHOOSE i \in 1..Len(items) :
             /\ items[i].name = n
             /\ \A j \in 1..Len(items) : items[j].name = n => j <= i].importance]

\* line 118
goal_skill_names(goal) == DOMAIN goal_skills_with_importance(goal)

\* line 122
LoadAlternates ==
  /\ pc = "load_alternates"
  /\ work' = work \cup {"load_alternates"}
  /\ alternate_skills_map' = load_alternate_skills(req.alternates_file)
  /\ pc' = "lemmatize"
  /\ UNCHANGED << config, req, calls, first, prob, lemmatized_resume_text,
                  todo, matched_skills, all_missing_skills, how, exc, result,
                  http >>

\* line 125, and the loop of line 132 is entered
Lemmatize ==
  /\ pc = "lemmatize"
  /\ work' = work \cup {"lemmatize"}
  /\ lemmatized_resume_text' = lemmatize_text_for_matching(req.resume_text)
  /\ todo' = goal_skill_names(req.goal)
  /\ pc' = "match"
  /\ UNCHANGED << config, req, calls, first, prob, alternate_skills_map,
                  matched_skills, all_missing_skills, how, exc, result, http >>


confidence_threshold == 70
partial_threshold == 55

\* phrase_in_lemmatized_text on the phrases, texts and thresholds of this
\* model, tabulated (the function is pure)
AllPhrases == {Java, SQL, DataStructures, Git, Excel, Python, MySQL, Postgres, Spreadsheets}

LemmatizedTexts == {lemmatize_text_for_matching(t) : t \in Texts}

MatchTable ==
  [x \in AllPhrases \X LemmatizedTexts \X {confidence_threshold, partial_threshold} |->
     phrase_in_lemmatized_text(x[1], x[2], x[3])] @@ << >>

Matches(phrase, lemmatized_text, threshold) ==
  MatchTable[<< phrase, lemmatized_text, threshold >>]

Settled(outcome, via) == [outcome |-> outcome, via |-> via]

\* lines 142-148: the index of the first alternate that matches, 0 when none does
FirstAlternate(alts, text) ==
  LET hits == {i \in 1..Len(alts) :
                 Matches(alts[i], text, confidence_threshold)}
  IN  IF hits = {} THEN 0 ELSE CHOOSE i \in hits : \A j \in hits : i <= j

\* lines 133-158: one iteration of the loop, for skill_name.  The value is
\* what the iteration appends and logs; "TypeError" when the table's entry
\* for the skill cannot be iterated.
MatchOne(skill_name, text, alternates, importances) ==
  IF Matches(skill_name, text, confidence_threshold)
    THEN Settled("direct", << >>)
  ELSE IF skill_name \in DOMAIN alternates /\ alternates[skill_name].kind # "list"
    THEN Settled("TypeError", << >>)
  ELSE LET alts == IF skill_name \in DOMAIN alternates
                     THEN alternates[skill_name].items ELSE << >>
           k == FirstAlternate(alts, text)
       IN  IF k > 0 THEN Settled("alternate", alts[k])
           ELSE IF Matches(skill_name, text, partial_threshold)
             THEN Settled("partial", << >>)
           ELSE Settled("missing", << >>)

\* what an iteration's outcome appends to matched_skills
AppendMatched(matched, skill_name, outcome) ==
  IF outcome \in {"direct", "alternate", "partial"}
    THEN Append(matched, skill_name) ELSE matched

\* the partial match falls through to the missing branch
AppendMissing_Fallthrough(missing, skill_name, outcome, importances) ==
  IF outcome \in {"missing", "partial"}
    THEN Append(missing, << skill_name, importances[skill_name] >>)
    ELSE missing

\* what an iteration's outcome appends to all_missing_skills (lines 155-156)
AppendMissing(missing, skill_name, outcome, importances) ==
  IF outcome = "missing"
    THEN Append(missing,
                << skill_name,
                   IF skill_name \in DOMAIN importances
                     THEN importances[skill_name] ELSE "unknown" >>)
    ELSE missing

\* the loop of line 132 takes the next name of the set goal_skill_names:
\* a set has no order, any remaining name can be next
MatchSkill ==
  /\ pc = "match"
  /\ \E skill_name \in todo :
       LET importances == goal_skills_with_importance(req.goal)
           s == MatchOne(skill_name, lemmatized_resume_text,
                         alternate_skills_map, importances)
       IN  /\ work' = work \cup {"match"}
           /\ todo' = todo \ {skill_name}
           /\ how' = [n \in DOMAIN how \cup {skill_name} |->
                        IF n = skill_name THEN s ELSE how[n]]
           /\ matched_skills' = AppendMatched(matched_skills, skill_name, s.outcome)
           /\ all_missing_skills' =
                AppendMissing(all_missing_skills, skill_name, s.outcome, importances)
           /\ IF s.outcome = "TypeError"
                THEN /\ exc' = << Exception("TypeError", "not iterable") >>
                     /\ pc' = "raised"
                ELSE /\ exc' = exc
                     /\ pc' = pc
  /\ UNCHANGED << config, req, calls, first, prob, alternate_skills_map,
                  lemmatized_resume_text, result, http >>

(***************************************************************************)
(* Lines 160-219: the score, the capped missing list, the suggestions and  *)
(* the groups.                                                             *)
(***************************************************************************)
\* sorted(names): a stable insertion sort under Python's order of strings
InsertName(acc, x) ==
  LET k == Cardinality({i \in 1..Len(acc) : ~StrLess(x, acc[i])})
  IN  SubSeq(acc, 1, k) \o << x >> \o SubSeq(acc, k + 1, Len(acc))

RECURSIVE SortedNamesFrom(_, _)
SortedNamesFrom(rest, acc) ==
  IF rest = << >> THEN acc
  ELSE SortedNamesFrom(Tail(rest), InsertName(acc, Head(rest)))

SortedNames(s) == SortedNamesFrom(s, << >>)

RECURSIVE SumSeq(_)
SumSeq(s) == IF s = << >> THEN 0 ELSE Head(s) + SumSeq(Tail(s))


UnknownRank == 99

\* line 119 with the .get(x[1], 99) of line 182
importance_order(importance) ==
  CASE importance = "core" -> 1
    [] importance = "important" -> 2
    [] importance = "nice_to_have" -> 3
    [] OTHER -> UnknownRank

\* an importance outside the three tiers weighs as nice_to_have
importance_weights_UnknownAsNiceToHave(importance) ==
  CASE importance = "core" -> 3
    [] importance = "important" -> 2
    [] OTHER -> 1

\* line 161 with the .get(..., 0) of lines 163 and 167
importance_weights(importance) ==
  CASE importance = "core" -> 3
    [] importance = "important" -> 2
    [] importance = "nice_to_have" -> 1
    [] OTHER -> 0

\* importance_weights.get(goal_skills_with_importance.get(skill, "nice_to_have"), 0)
SkillPoints(importances, skill) ==
  importance_weights(IF skill \in DOMAIN importances
                       THEN importances[skill] ELSE "nice_to_have")

\* sum(... for skill in names) over a set of names
RECURSIVE SumPoints(_, _)
SumPoints(importances, names) ==
  IF names = {} THEN 0
  ELSE LET skill == CHOOSE n \in names : TRUE
       IN  SkillPoints(importances, skill) + SumPoints(importances, names \ {skill})

\* the denominator summed over the core skills alone
total_skill_points_CoreOnly(goal) ==
  LET importances == goal_skills_with_importance(goal) IN
  SumPoints(importances, {n \in goal_skill_names(goal) : importances[n] = "core"})

\* lines 162-165
total_skill_points(goal) ==
  SumPoints(goal_skills_with_importance(goal), goal_skill_names(goal))

\* lines 166-169
matched_skill_points(goal, matched) ==
  LET importances == goal_skills_with_importance(goal) IN
  SumSeq([i \in 1..Len(matched) |-> SkillPoints(importances, matched[i])])

model_weight == 6     \* 0.6, in tenths
skill_weight == 4     \* 0.4, in tenths

\* the weights before they were changed to 0.6 and 0.4 (0.7 and 0.3)
final_score_OldWeights(p, m, t) ==
  IF t > 0
    THEN [num |-> 7 * p * t + 3 * 10 * m, den |-> 100 * t]
    ELSE [num |-> 7 * p, den |-> 100]

\* lines 170-175 in exact arithmetic: the fraction num/den, with p in tenths.
\*   0.6*p + 0.4*m/t = (6*p*t + 40*m) / (100*t), and 6*p/100 when t = 0
final_score(p, m, t) ==
  IF t > 0
    THEN [num |-> model_weight * p * t + skill_weight * 10 * m, den |-> 100 * t]
    ELSE [num |-> model_weight * p, den |-> 100]

\* line 178: final_score >= config["minimum_score_to_pass"] (in hundredths)
is_pass_of(score, minimum) == score.num * 100 >= minimum * score.den

DefaultMaxMissing == 15

\* line 181
max_missing_skills_of(cfg) ==
  IF cfg.max_missing_skills = << >> THEN DefaultMaxMissing
  ELSE cfg.max_missing_skills[1]

\* the sort key of line 182
MissingLess(x, y) ==
  \/ importance_order(x[2]) < importance_order(y[2])
  \/ importance_order(x[2]) = importance_order(y[2]) /\ StrLess(x[1], y[1])

\* sorted(all_missing_skills, key=...): a stable insertion sort under the key
InsertMissing(acc, x) ==
  LET k == Cardinality({i \in 1..Len(acc) : ~MissingLess(x, acc[i])})
  IN  SubSeq(acc, 1, k) \o << x >> \o SubSeq(acc, k + 1, Len(acc))

RECURSIVE SortedMissingFrom(_, _)
SortedMissingFrom(rest, acc) ==
  IF rest = << >> THEN acc
  ELSE SortedMissingFrom(Tail(rest), InsertMissing(acc, Head(rest)))

\* line 182
sorted_missing_skills(missing) == SortedMissingFrom(missing, << >>)

\* line 183
capped_missing_skills_names(missing, cap) ==
  LET sm == sorted_missing_skills(missing)
      k == IF Len(sm) < cap THEN Len(sm) ELSE cap
  IN  [i \in 1..k |-> sm[i][1]]

\* line 186
Suggestion(skill_name) ==
  IF skill_name \in DOMAIN suggestion_map
    THEN suggestion_map[skill_name] ELSE << "Learn basics of ", skill_name >>

suggestions_of(capped) == [i \in 1..Len(capped) |-> Suggestion(capped[i])]


\* skill_groups.get(goal, {})
GoalGroups(goal) ==
  IF goal \in DOMAIN skill_groups THEN skill_groups[goal] ELSE [g \in {} |-> {}]

SeqRange(s) == {s[i] : i \in 1..Len(s)}

\* s restricted to the elements of S, in the order of s
RECURSIVE Filter(_, _)
Filter(s, S) ==
  IF s = << >> THEN << >>
  ELSE IF Head(s) \in S THEN << Head(s) >> \o Filter(Tail(s), S)
  ELSE Filter(Tail(s), S)

\* sorted(...) of a set of names
RECURSIVE SetToSeq(_)
SetToSeq(S) ==
  IF S = {} THEN << >>
  ELSE LET x == CHOOSE y \in S : TRUE IN << x >> \o SetToSeq(S \ {x})

\* every skill of the group, required by the goal or not
group_skill_names_WholeGroup(goal, skills_in_group) == skills_in_group

\* line 191
group_skill_names(goal, skills_in_group) ==
  {n \in SeqRange([i \in 1..Len(GoalItems(goal)) |-> GoalItems(goal)[i].name]) :
     n \in skills_in_group}

\* the recommendation lists the whole group, matched skills included
GroupEntry_WholeGroup(goal, skills_in_group, matched, missing) ==
  LET names == group_skill_names(goal, skills_in_group)
      group_matched == Filter(matched, names)
      group_missing ==
        Filter([i \in 1..Len(missing) |-> missing[i][1]], names)
  IN  IF group_matched # << >> THEN SortedNames(SetToSeq(names))
      ELSE SortedNames(group_missing)

\* lines 192-200: the list the group gets; << >> when it gets no entry
GroupEntry(goal, skills_in_group, matched, missing) ==
  LET names == group_skill_names(goal, skills_in_group)
      group_matched == Filter(matched, names)
      to_recommend == SortedNames(SetToSeq(names \ SeqRange(matched)))
      group_missing ==
        Filter([i \in 1..Len(missing) |-> missing[i][1]], names)
  IN  IF group_matched # << >> THEN to_recommend ELSE SortedNames(group_missing)

\* lines 189-200
missing_grouped(goal, matched, missing) ==
  LET groups == GoalGroups(goal) IN
  [g \in {h \in DOMAIN groups : GroupEntry(goal, groups[h], matched, missing) # << >>} |->
     GroupEntry(goal, groups[g], matched, missing)]

\* the list returned as the loop filled it
ReturnedMatched_Unsorted(matched) == matched

\* line 215
ReturnedMatched(matched) == SortedNames(matched)

\* line 216
ReturnedMissing(capped) == SortedNames(capped)

\* lines 160-219: the dict score_resume returns
ScoringResult(goal, cfg, p, matched, missing) ==
  LET skill_m == matched_skill_points(goal, matched)
      skill_t == total_skill_points(goal)
      score == final_score(p, skill_m, skill_t)
      capped == capped_missing_skills_names(missing, max_missing_skills_of(cfg))
  IN  [score |-> score,
       is_pass |-> is_pass_of(score, cfg.minimum_score_to_pass),
       matched_skills |-> ReturnedMatched(matched),
       missing_skills |-> ReturnedMissing(capped),
       missing_skills_grouped |-> missing_grouped(goal, matched, missing),
       suggested_learning_path |-> suggestions_of(capped)]

\* the loop has ended: lines 160-219
Finish ==
  /\ pc = "match"
  /\ todo = {}
  /\ work' = work \cup {"score"}
  /\ result' = << ScoringResult(req.goal, config, prob, matched_skills,
                                all_missing_skills) >>
  /\ pc' = "returned"
  /\ UNCHANGED << config, req, calls, first, prob, alternate_skills_map,
                  lemmatized_resume_text, todo, matched_skills,
                  all_missing_skills, how, exc, http >>

(***************************************************************************)
(* POST /score, after the scorer (main.py, lines 83-100).                  *)
(***************************************************************************)
\* the status the handler gives an exception of the scorer
StatusOf(e) == IF e.type = "ValueError" THEN 400 ELSE 500

DetailOf(e) ==
  IF e.type = "ValueError" THEN << e.msg >>
  ELSE << "Error processing resume: ", e.msg >>

PostScoreRespond ==
  /\ pc \in {"returned", "raised"}
  /\ req.entry = "post_score"
  /\ \/ /\ pc = "returned"
        /\ http' = << HTTPException(200, << "result" >>) >>
     \/ /\ pc = "raised"
        /\ http' = << HTTPException(StatusOf(exc[1]), DetailOf(exc[1])) >>
  /\ pc' = "responded"
  /\ UNCHANGED << config, req, calls, first, work, prob, alternate_skills_map,
                  lemmatized_resume_text, todo, matched_skills,
                  all_missing_skills, how, exc, result >>

Next ==
  \/ Request
  \/ Forget
  \/ Repeat
  \/ PostScoreCheck
  \/ ValidateInput
  \/ LoadModel
  \/ LoadVectorizer
  \/ Predict
  \/ LoadAlternates
  \/ Lemmatize
  \/ MatchSkill
  \/ Finish
  \/ PostScoreRespond

Spec == Init /\ [][Next]_vars


(***************************************************************************)
(* phrase_in_lemmatized_text on its own (scorer.py, lines 34-55): a call   *)
(* with any phrase, text and threshold, followed step by step.             *)
(***************************************************************************)
\* the threshold argument ranges over 0..MaxThreshold (a ratio is at most 100)
MaxThreshold == 101

Thresholds == 0..MaxThreshold

\* the phrase argument: the skill names and alternates, and the empty phrase
MatcherPhrases == AllPhrases \cup {<< >>}

\* the lemmatized_text argument: the resume texts and three short ones, as
\* lemmatize_text_for_matching leaves them
MatcherTexts ==
  LemmatizedTexts \cup
  { lemmatize_text_for_matching(t) :
      t \in { << "s","t","r","u","c","t","u","r","e","s" >>,
              << "b","i","g"," ","s","t","r","u","c","t","u","r","e","s" >>,
              << "p","o","s","t","g","r","e" >> } }

MatcherCalls ==
  [phrase : MatcherPhrases, lemmatized_text : MatcherTexts, threshold : Thresholds]

\* lines 36-39, of the call in req
phrase_lemmatized == lemmatize_text_for_matching(req.phrase)
phrase_words == Split(phrase_lemmatized)
text_words == Split(req.lemmatized_text)

\* the call is made: req holds its arguments, nothing has run
MatcherInit ==
  /\ req \in MatcherCalls
  /\ pc = "window_loop"
  /\ work = {}
  /\ result = << >>
  /\ config = None
  /\ calls = 1
  /\ first = << >>
  /\ prob = -1
  /\ alternate_skills_map = None
  /\ lemmatized_resume_text = None
  /\ todo = {}
  /\ matched_skills = << >>
  /\ all_missing_skills = << >>
  /\ how = NoHow
  /\ exc = << >>
  /\ http = << >>

\* lines 41-46: the loop over the windows; it returns True at the first
\* window that reaches the threshold
WindowLoop ==
  /\ pc = "window_loop"
  /\ IF WindowMatch(phrase_lemmatized, Len(phrase_words), text_words, req.threshold)
       THEN /\ work' = {"window"}
            /\ result' = << TRUE >>
            /\ pc' = "matcher_returned"
       ELSE /\ work' = work
            /\ result' = result
            /\ pc' = "word_fallback"
  /\ UNCHANGED << config, req, calls, first, prob, alternate_skills_map,
                  lemmatized_resume_text, todo, matched_skills,
                  all_missing_skills, how, exc, http >>

\* lines 48-55: the word-level loop of a multi-word phrase, and return False
WordFallback ==
  /\ pc = "word_fallback"
  /\ IF Len(phrase_words) > 1
       THEN /\ work' = {"word"}
            /\ result' = << WordMatch(phrase_words, text_words) >>
       ELSE /\ work' = work
            /\ result' = << FALSE >>
  /\ pc' = "matcher_returned"
  /\ UNCHANGED << config, req, calls, first, prob, alternate_skills_map,
                  lemmatized_resume_text, todo, matched_skills,
                  all_missing_skills, how, exc, http >>

MatcherNext ==
  \/ WindowLoop
  \/ WordFallback

MatcherSpec == MatcherInit /\ [][MatcherNext]_vars


(***************************************************************************)
(* Properties.                                                             *)
(***************************************************************************)
\* score_resume has returned a dict
Returned == result # << >>

\* the loop of line 132 has run to its end
LoopDone == Returned \/ (pc = "match" /\ todo = {})

\* the required skills of the goal of the request, and their importance
Required == goal_skill_names(req.goal)

ImportanceOf(skill) == goal_skills_with_importance(req.goal)[skill]

\* the text is empty or holds nothing but whitespace
OnlyWhitespace(text) == \A i \in 1..Len(text) : text[i] = " "

\* C1: every dict score_resume returns has a score in [0,1], and its is_pass
\* is true exactly when the score is at least config minimum_score_to_pass.
C1_ScoreInUnitIntervalAndPass ==
  Returned =>
    LET r == result[1] IN
    /\ r.score.den > 0
    /\ 0 <= r.score.num
    /\ r.score.num <= r.score.den
    /\ r.is_pass <=> (100 * r.score.num >= config.minimum_score_to_pass * r.score.den)

\* a call returns the score 1.0 and passes the minimum of 0.88
C1_Witness ==
  /\ Returned
  /\ result[1].score.num = result[1].score.den
  /\ result[1].is_pass
  /\ config.minimum_score_to_pass = 88


\* the weights the claims give the three tiers; any other importance weighs 0
TierPoints(names) ==
    3 * Cardinality({n \in names : ImportanceOf(n) = "core"})
  + 2 * Cardinality({n \in names : ImportanceOf(n) = "important"})
  + 1 * Cardinality({n \in names : ImportanceOf(n) = "nice_to_have"})

\* the score num/den equals a/b
ScoreIs(score, a, b) == score.num * b = a * score.den

\* C2 as stated: the score is 0.6*p + 0.4*skill_score with skill_score the
\* weighted share of the matched required skills, 0 when the goal has no
\* required skills; and p = 0.8 with every required skill matched gives 0.88.
C2_Original ==
  Returned =>
    LET r == result[1]
        M == TierPoints(SeqRange(r.matched_skills))
        T == TierPoints(Required)
    IN  /\ Required = {} => ScoreIs(r.score, 6 * prob, 100)
        /\ Required # {} => r.score.num * (100 * T) = (6 * prob * T + 40 * M) * r.score.den
        /\ (prob = 8 /\ SeqRange(r.matched_skills) = Required) => ScoreIs(r.score, 88, 100)

\* C2 as amended: the score is 0.6*p + 0.4*skill_score, where skill_score is
\* the tier weight (core 3, important 2, nice_to_have 1, any other importance
\* 0) of the matched required skills over that of all required skills, and 0
\* when that total is 0; p = 0.8 with every required skill matched gives 0.88
\* when the total is positive and 0.48 when it is 0.
C2_ScoreFormula ==
  Returned =>
    LET r == result[1]
        M == TierPoints(SeqRange(r.matched_skills))
        T == TierPoints(Required)
    IN  /\ T > 0 => ScoreIs(r.score, 6 * prob * T + 40 * M, 100 * T)
        /\ T = 0 => ScoreIs(r.score, 6 * prob, 100)
        /\ (prob = 8 /\ SeqRange(r.matched_skills) = Required) =>
             IF T > 0 THEN ScoreIs(r.score, 88, 100) ELSE ScoreIs(r.score, 48, 100)

\* p = 0.8, four required skills of which some weigh nothing, all matched: 0.88
C2_Witness ==
  /\ Returned
  /\ prob = 8
  /\ Cardinality(Required) = 4
  /\ SeqRange(result[1].matched_skills) = Required
  /\ ScoreIs(result[1].score, 88, 100)

\* how the claim settles a skill: direct at 70, else the first alternate in
\* table order that matches at 70, else the skill itself at 55, else missing
ExpectedOutcome(skill) ==
  LET text == lemmatized_resume_text
      alts == IF skill \in DOMAIN alternate_skills_map
                THEN alternate_skills_map[skill].items ELSE << >>
      hit(i) == Matches(alts[i], text, 70)
  IN  IF Matches(skill, text, 70) THEN Settled("direct", << >>)
      ELSE IF \E i \in 1..Len(alts) : hit(i)
        THEN Settled("alternate",
                     alts[CHOOSE i \in 1..Len(alts) :
                            hit(i) /\ \A j \in 1..(i - 1) : ~hit(j)])
      ELSE IF Matches(skill, text, 55) THEN Settled("partial", << >>)
      ELSE Settled("missing", << >>)

NoDuplicates(s) == \A i, j \in 1..Len(s) : s[i] = s[j] => i = j

\* C3: when the loop has ended every required skill has exactly one outcome,
\* the one the chain direct / first alternate / partial / missing gives it; a
\* missing skill is recorded with its importance; matched and missing skills
\* are disjoint, cover the required skills, and no skill is recorded twice.
C3_OneOutcomePerSkill ==
  LoopDone =>
    LET missing_names == [i \in 1..Len(all_missing_skills) |-> all_missing_skills[i][1]]
    IN  /\ DOMAIN how = Required
        /\ \A s \in Required :
             /\ how[s] = ExpectedOutcome(s)
             /\ (how[s].outcome # "missing") <=> (s \in SeqRange(matched_skills))
             /\ (how[s].outcome = "missing") <=>
                  (<< s, ImportanceOf(s) >> \in SeqRange(all_missing_skills))
        /\ SeqRange(matched_skills) \cap SeqRange(missing_names) = {}
        /\ SeqRange(matched_skills) \cup SeqRange(missing_names) = Required
        /\ NoDuplicates(matched_skills)
        /\ NoDuplicates(missing_names)

\* a loop that settled one skill through its second alternate, one partially
\* or directly, and found others missing
C3_Witness ==
  /\ LoopDone
  /\ \E s \in Required : how[s] = Settled("alternate", Postgres)
  /\ \E s \in Required : how[s].outcome = "direct"
  /\ \E s \in Required : how[s].outcome = "missing"

\* a loop that settled a skill by the partial match at 55
C3_WitnessPartial ==
  LoopDone /\ \E s \in Required : how[s].outcome = "partial"

\* the skills listed in missing_skills_grouped
GroupedSkills(r) ==
  UNION {SeqRange(r.missing_skills_grouped[g]) : g \in DOMAIN r.missing_skills_grouped}

\* the required skills that belong to a reporting group of the goal
InSomeGroup ==
  {s \in Required : \E g \in DOMAIN GoalGroups(req.goal) : s \in GoalGroups(req.goal)[g]}

\* C4 as stated: no skill is both matched and listed in a group, and the
\* matched skills with the listed ones contain every required skill.
C4_Original ==
  Returned =>
    LET r == result[1] IN
    /\ SeqRange(r.matched_skills) \cap GroupedSkills(r) = {}
    /\ Required \subseteq SeqRange(r.matched_skills) \cup GroupedSkills(r)

\* C4 as amended: no skill is both matched and listed in a group, and the
\* matched skills with the listed ones contain every required skill that
\* belongs to a reporting group of the goal.
C4_DisjointAndGroupedCovered ==
  Returned =>
    LET r == result[1] IN
    /\ SeqRange(r.matched_skills) \cap GroupedSkills(r) = {}
    /\ InSomeGroup \subseteq SeqRange(r.matched_skills) \cup GroupedSkills(r)
    /\ GroupedSkills(r) \subseteq Required

\* a group with a matched and an unmatched skill, and a group with none matched
C4_Witness ==
  /\ Returned
  /\ req.goal = "Amazon SDE"
  /\ DOMAIN result[1].missing_skills_grouped = {"Programming", "Databases"}
  /\ result[1].matched_skills # << >>


\* C5 as stated: the returned missing_skills is the first max_missing_skills
\* entries of the missing skills sorted by (importance rank, name), in that
\* order, and is no longer than the cap.
C5_Original ==
  Returned =>
    LET cap == max_missing_skills_of(config) IN
    /\ result[1].missing_skills = capped_missing_skills_names(all_missing_skills, cap)
    /\ Len(result[1].missing_skills) <= cap

\* C6 as stated: suggested_learning_path has the length of missing_skills and
\* its i-th entry is the suggestion for the i-th missing skill.
C6_Original ==
  Returned =>
    LET r == result[1] IN
    /\ Len(r.suggested_learning_path) = Len(r.missing_skills)
    /\ \A i \in 1..Len(r.missing_skills) :
         r.suggested_learning_path[i] =
           IF r.missing_skills[i] \in DOMAIN suggestion_map
             THEN suggestion_map[r.missing_skills[i]]
             ELSE << "Learn basics of ", r.missing_skills[i] >>

\* C7: a call whose text is empty or whitespace-only does no work (no load,
\* no normalisation, no matching) and can only end with the empty-input
\* error: ValueError "Resume text cannot be empty" from score_resume, HTTP 400
\* with that detail from POST /score, which does not call the scorer.
C7_EmptyInputRejected ==
  (pc # "idle" /\ OnlyWhitespace(req.resume_text)) =>
    /\ work = {}
    /\ ~Returned
    /\ pc \in {"post_score", "score_resume", "raised", "responded"}
    /\ pc = "raised" => exc = << Exception("ValueError", "Resume text cannot be empty") >>
    /\ pc = "responded" =>
         http = << HTTPException(400, << "Resume text cannot be empty" >>) >>
    /\ req.entry = "post_score" => pc \in {"post_score", "responded"}

\* POST /score has answered a whitespace-only text for an unsupported goal
C7_Witness ==
  /\ pc = "responded"
  /\ req.resume_text = << " ", " " >>
  /\ req.goal = "Invalid Goal"
  /\ http = << HTTPException(400, << "Resume text cannot be empty" >>) >>

\* the request has non-empty text and a goal outside the supported goals
UnsupportedRequest ==
  /\ pc # "idle"
  /\ ~OnlyWhitespace(req.resume_text)
  /\ req.goal \notin model_goals_supported

UnsupportedGoalResponse == << HTTPException(400, << "Unsupported goal", req.goal >>) >>

\* C8 as stated: every such request fails with the unsupported-goal
\* classification before any model or vectorizer load is attempted.
C8_Original ==
  UnsupportedRequest =>
    /\ "load_model" \notin work
    /\ "load_vectorizer" \notin work
    /\ ~Returned
    /\ Done => http = UnsupportedGoalResponse

\* C8 as amended: through POST /score such a request fails with the
\* unsupported-goal response (HTTP 400) before the scorer is called, so before
\* any load; a direct call of score_resume makes no such check and goes on
\* to load the model.
C8_UnsupportedGoalRejectedByPostScore ==
  UnsupportedRequest =>
    /\ req.entry = "post_score" =>
         /\ work = {}
         /\ ~Returned
         /\ exc = << >>
         /\ pc \in {"post_score", "responded"}
         /\ pc = "responded" => http = UnsupportedGoalResponse
    /\ req.entry = "score_resume" =>
         /\ http = << >>
         /\ pc \notin {"score_resume", "load_model"} => "load_model" \in work

\* POST /score has answered a request for an unsupported goal
C8_Witness ==
  /\ UnsupportedRequest
  /\ req.entry = "post_score"
  /\ pc = "responded"
  /\ http = UnsupportedGoalResponse

\* C9 as stated: a call through POST /score in which something failed other
\* than empty input and unsupported goal (an artifact that is missing or
\* raises, an alternates table that is missing or malformed) ends with 500.
C9_Original ==
  ( /\ pc = "responded"
    /\ ~OnlyWhitespace(req.resume_text)
    /\ req.goal \in model_goals_supported
    /\ \/ req.artifacts # "ok"
       \/ req.alternates_file \in {"missing", "invalid_json"}
       \/ exc # << >> )
  => http[1].status_code = 500

\* C10: the repetition of a request ends as its first call did: the same
\* dict field by field, or the same exception, and the same response.
C10_SameInputsSameResult ==
  (Done /\ calls = 2) => first[1].outcome = Outcome

\* the repetition returned, and its loop filled both lists in another order
\* than the first call's loop
C10_Witness ==
  /\ Done
  /\ calls = 2
  /\ Returned
  /\ first[1].matched # matched_skills
  /\ first[1].missing # all_missing_skills

(***************************************************************************)
(* C11, under MatcherSpec.                                                 *)
(***************************************************************************)
\* the call of phrase_in_lemmatized_text has returned
MatcherReturned == pc = "matcher_returned"

\* some window of n consecutive text words has a ratio >= threshold with
\* the normalised phrase
SomeWindowReaches ==
  LET n == Len(phrase_words) IN
  \E i \in 1..(Len(text_words) - n + 1) :
     ratio(Join([k \in 1..n |-> text_words[i + k - 1]]), phrase_lemmatized)
       >= req.threshold

\* some phrase word and some text word have a pairwise ratio >= 80
SomeWordPairReaches ==
  \E w \in SeqRange(phrase_words) : \E t \in SeqRange(text_words) :
     ratio(w, t) >= 80

\* the value is true exactly in the two cases, computed by the function as
\* by its steps, and the word-level loop runs for multi-word phrases only
MatcherCharacterisation ==
  MatcherReturned =>
    /\ result[1] = (SomeWindowReaches \/ (Len(phrase_words) > 1 /\ SomeWordPairReaches))
    /\ result[1] = phrase_in_lemmatized_text(req.phrase, req.lemmatized_text,
                                             req.threshold)
    /\ Len(phrase_words) <= 1 => "word" \notin work
    /\ "window" \in work <=> SomeWindowReaches

\* a multi-word phrase exactly one word of which is a word of the text
OneWordOccurs ==
  /\ Len(phrase_words) > 1
  /\ Cardinality(SeqRange(phrase_words) \cap SeqRange(text_words)) = 1

\* C11 as stated: the value is true exactly when a window reaches the
\* threshold or, for a multi-word phrase, a word pair reaches 80; and a
\* multi-word phrase one word of which occurs in the text matches through
\* the word-level loop, not through a window, whatever the threshold.
C11_Original ==
  /\ MatcherCharacterisation
  /\ (MatcherReturned /\ OneWordOccurs) => (result[1] /\ work = {"word"})

\* C11 as amended: the value is true exactly when a window reaches the
\* threshold or, for a multi-word phrase, a word pair reaches 80; a
\* single-word phrase never runs the word-level loop; a multi-word phrase
\* one word of which occurs in the text always matches, through the
\* word-level loop exactly when no window reaches the threshold, which is
\* so at every threshold when the text has fewer words than the phrase.
C11_WindowOrWordFallback ==
  /\ MatcherCharacterisation
  /\ (MatcherReturned /\ OneWordOccurs) =>
       /\ result[1]
       /\ work = {"word"} <=> ~SomeWindowReaches
       /\ Len(text_words) < Len(phrase_words) => work = {"word"}

\* "Data Structures" against the text "structures" alone, at a threshold no
\* ratio reaches: matched by the word-level loop
C11_Witness ==
  /\ MatcherReturned
  /\ req.phrase = DataStructures
  /\ text_words = << << "s","t","r","u","c","t","u","r","e" >> >>
  /\ req.threshold = 101
  /\ result = << TRUE >>
  /\ work = {"word"}

(***************************************************************************)
(* C12, under Spec.                                                        *)
(***************************************************************************)
\* e is the sorted list of the names of S: each once, in increasing order
IsSortedListOf(e, S) ==
  /\ SeqRange(e) = S
  /\ Len(e) = Cardinality(S)
  /\ \A i \in 1..Len(e) : \A j \in 1..Len(e) : i < j => StrLess(e[i], e[j])

MatchedNames == SeqRange(matched_skills)

MissingNames == {all_missing_skills[i][1] : i \in 1..Len(all_missing_skills)}

\* the names the claim gives the group whose skills are skills_in_group
GroupExpected(skills_in_group) ==
  LET G == Required \cap skills_in_group
  IN  IF G \cap MatchedNames # {} THEN G \ MatchedNames ELSE G \cap MissingNames

\* C12: for every reporting group of the goal, with G the required skills in
\* the group, the entry of the group is the sorted list of the skills of G
\* that are not matched when one of G is matched, and of the missing skills
\* of G otherwise; the group has an entry exactly when that list is not
\* empty; so every entry is a non-empty sorted list of unmatched required
\* skills of the group, whatever the cap on missing_skills left out.
C12_GroupLists ==
  Returned =>
    LET groups == GoalGroups(req.goal)
        grouped == result[1].missing_skills_grouped
    IN  /\ DOMAIN grouped \subseteq DOMAIN groups
        /\ \A g \in DOMAIN groups :
             /\ g \in DOMAIN grouped <=> GroupExpected(groups[g]) # {}
             /\ g \in DOMAIN grouped =>
                  /\ IsSortedListOf(grouped[g], GroupExpected(groups[g]))
                  /\ grouped[g] # << >>
                  /\ SeqRange(grouped[g]) \subseteq
                       (Required \cap groups[g]) \ SeqRange(result[1].matched_skills)

\* a group with a matched skill lists an unmatched one that the cap kept
\* out of missing_skills, and another group, all matched, has no entry
C12_Witness ==
  /\ Returned
  /\ req.goal = "Amazon SDE"
  /\ Java \in SeqRange(result[1].matched_skills)
  /\ "Programming" \in DOMAIN result[1].missing_skills_grouped
  /\ result[1].missing_skills_grouped["Programming"] = << Git >>
  /\ Git \notin SeqRange(result[1].missing_skills)
  /\ "Databases" \notin DOMAIN result[1].missing_skills_grouped

(***************************************************************************)
(* C13, under Spec.                                                        *)
(***************************************************************************)
\* the names whose importance is none of core, important, nice_to_have
Unrecognised(names) ==
  {n \in names : ImportanceOf(n) \notin {"core", "important", "nice_to_have"}}

\* the points of names when an unrecognised importance weighs u
PointsWith(names, u) == TierPoints(names) + u * Cardinality(Unrecognised(names))

\* the goal requires one core skill and one skill of unrecognised
\* importance; the first is matched, the second is not
OneCoreMatchedOneUnrecognisedNot ==
  /\ Cardinality(Required) = 2
  /\ \E c \in Required : \E u \in Required :
       /\ ImportanceOf(c) = "core"
       /\ u \in Unrecognised(Required)
       /\ MatchedNames = {c}

\* C13 as stated: a required skill of unrecognised importance weighs 1 in
\* the denominator of skill_score, and in the numerator when it is matched;
\* one such skill unmatched and one core skill matched give skill_score 3/4.
C13_Original ==
  Returned =>
    LET M == PointsWith(MatchedNames, 1)
        T == PointsWith(Required, 1)
    IN  /\ T > 0 => ScoreIs(result[1].score, 6 * prob * T + 40 * M, 100 * T)
        /\ OneCoreMatchedOneUnrecognisedNot =>
             ScoreIs(result[1].score, 6 * prob * 4 + 40 * 3, 100 * 4)

\* C13 as amended: a required skill of unrecognised importance weighs 0 in
\* the denominator and in the numerator of skill_score, matched or not: the
\* score is the one of the goal without such skills; one such skill
\* unmatched and one core skill matched give skill_score 3/3 = 1.
C13_UnrecognisedImportanceWeighsNothing ==
  Returned =>
    LET known == Required \ Unrecognised(Required)
        M == PointsWith(MatchedNames \cap known, 0)
        T == PointsWith(known, 0)
    IN  /\ T > 0 => ScoreIs(result[1].score, 6 * prob * T + 40 * M, 100 * T)
        /\ T = 0 => ScoreIs(result[1].score, 6 * prob, 100)
        /\ OneCoreMatchedOneUnrecognisedNot =>
             ScoreIs(result[1].score, 6 * prob + 40, 100)

\* one core skill matched, one skill of unrecognised importance missing,
\* p = 0.8: the score is 0.88, skill_score being 1
C13_Witness ==
  /\ Returned
  /\ OneCoreMatchedOneUnrecognisedNot
  /\ Len(all_missing_skills) = 1
  /\ prob = 8
  /\ ScoreIs(result[1].score, 88, 100)

=============================================================================
